---- MODULE Spec2Model ----
(***************************************************************************)
(* A model of dude_wheres_my_message/message_finder.py: the relative-time  *)
(* parser, the search-pattern builder, the kcat argument builder and the   *)
(* streaming search loop of the script body.                               *)
(*                                                                         *)
(* Text the code scans character by character (time expressions, search    *)
(* terms, consumer output lines) is a sequence of one-character strings;   *)
(* text the code only concatenates (kcat arguments) is a TLA+ string.      *)
(* An instant is [sec, us]: whole epoch seconds and microseconds, the      *)
(* resolution of datetime; an epoch-millisecond integer is [sec, ms],      *)
(* standing for sec * 1000 + ms, which does not fit TLC's 32-bit integers. *)
(* The clock is the true instant, in UTC; a naive datetime is the same     *)
(* record holding local wall-clock seconds.  The local zone is one change  *)
(* of UTC offset (none when both offsets agree).  datetime arithmetic is   *)
(* exact; binary floating point is not modelled.                           *)
(***************************************************************************)
EXTENDS Integers, Sequences, FiniteSets, TLC

VARIABLES
    pc,                 \* position in the script body / in the driver of a function
    kcat_exists,        \* what check_kcat_exists will answer for args.k
    args_b, args_e,     \* -b and -e: relative time expressions
    args_t,             \* -t: topic names
    args_s,             \* -s: search terms
    args_i,             \* -i: case-insensitive search
    config_file,        \* the kcat section of the file named by -c
    configs,            \* the ConfigParser object (its kcat section)
    tz,                 \* the local time zone of the process
    clock,              \* the instant datetime.today() reads, in UTC
    begin_time_switch, end_time_switch,
    begin_ts, end_ts,   \* locals of prepare_switches
    kcat_switches,
    kcat_pattern,
    stdout,             \* what the script has printed
    proc,               \* the consumer process of stream_subcommand
    proc_stdout,        \* everything the consumer writes, line by line
    nread,              \* lines taken from the pipe by readline
    nprocessed,         \* lines search_and_display has returned from
    line,               \* the line last yielded
    matched,            \* result of the last re.search
    returncode,         \* exit status of the consumer, -1 until it is reaped
    ncalls              \* calls of the function under test made by a driver

vars == << pc, kcat_exists, args_b, args_e, args_t, args_s, args_i, config_file,
           configs, tz, clock, begin_time_switch, end_time_switch, begin_ts, end_ts,
           kcat_switches, kcat_pattern, stdout, proc, proc_stdout, nread,
           nprocessed, line, matched, returncode, ncalls >>

-----------------------------------------------------------------------------
(* Bounds of the model *)

MaxExprLen == 4      \* longest time expression enumerated
MaxTerms == 2        \* most search terms given to -s
MaxLineLen == 3      \* longest line searched by the pattern driver
MaxLines == 2        \* most lines the consumer writes
MaxElapsedUs == 1    \* most microseconds passing between two clock reads
MaxCalls == 2        \* most calls of prepare_switches on one config object

-----------------------------------------------------------------------------
(* Text helpers *)

Min(S) == CHOOSE x \in S : \A y \in S : x <= y

SeqsUpTo(S, n) == UNION {[1..k -> S] : k \in 0..n}

DigitChars == <<"0", "1", "2", "3", "4", "5", "6", "7", "8", "9">>

IsDigit(c) == \E i \in 1..Len(DigitChars) : DigitChars[i] = c

DigitVal(c) == (CHOOSE i \in 1..Len(DigitChars) : DigitChars[i] = c) - 1

\* int(str) of a non-empty run of decimal digits
RECURSIVE int(_)
int(ds) == IF Len(ds) = 0 THEN 0
           ELSE 10 * int(SubSeq(ds, 1, Len(ds) - 1)) + DigitVal(ds[Len(ds)])

\* str.lower() on the characters a time expression or a line is made of
LowerChar(c) == CASE c = "D" -> "d" [] c = "H" -> "h" [] c = "M" -> "m"
                  [] c = "S" -> "s" [] c = "A" -> "a" [] c = "B" -> "b"
                  [] OTHER -> c

lower(s) == [i \in 1..Len(s) |-> LowerChar(s[i])]

-----------------------------------------------------------------------------
(* parse_time_switch *)

\* the character class [DHMSdhms] of pattern_value
UnitChars == {"D", "H", "M", "S", "d", "h", "m", "s"}

\* Length of the digit group when (\d+)([DHMSdhms]) matches at position p, else 0.
\* \d+ is greedy; a shorter digit group is followed by a digit, never by a unit.
DigitGroupAt(s, p) ==
    LET runs == {k \in 1..(Len(s) - p + 1) : \A j \in p..(p + k - 1) : IsDigit(s[j])}
        k == IF runs = {} THEN 0 ELSE CHOOSE m \in runs : \A n \in runs : n <= m
    IN IF k > 0 /\ p + k <= Len(s) /\ s[p + k] \in UnitChars THEN k ELSE 0

\* re.match(pattern_value, value): anchored at the start of value only
re_match(s) == DigitGroupAt(s, 1) > 0

\* re.split(pattern_value, value): the text between matches, and both groups of
\* every match, left to right
RECURSIVE re_split_from(_, _)
re_split_from(s, pos) ==
    LET starts == {p \in pos..Len(s) : DigitGroupAt(s, p) > 0}
    IN IF starts = {} THEN << SubSeq(s, pos, Len(s)) >>
       ELSE LET p == Min(starts)
                k == DigitGroupAt(s, p)
            IN << SubSeq(s, pos, p - 1), SubSeq(s, p, p + k - 1), << s[p + k] >> >>
               \o re_split_from(s, p + k + 1)

re_split(s) == re_split_from(s, 1)

\* the value parse_time_switch returns for a rejected expression (False)
NoSwitch == [field |-> "False", amount |-> 0]

parse_time_switch(value) ==
    IF ~re_match(value) THEN NoSwitch
    ELSE LET resp == re_split(value)
             kept == SelectSeq(resp, LAMBDA item : Len(item) > 0)
             output == [i \in 1..Len(kept) |-> lower(kept[i])]
         IN CASE output[2] = << "d" >> -> [field |-> "days", amount |-> int(output[1])]
              [] output[2] = << "h" >> -> [field |-> "hours", amount |-> int(output[1])]
              [] output[2] = << "m" >> -> [field |-> "minutes", amount |-> int(output[1])]
              [] output[2] = << "s" >> -> [field |-> "seconds", amount |-> int(output[1])]

-----------------------------------------------------------------------------
(* generate_timestamp *)

\* datetime.timedelta(**kwargs) in whole seconds
timedelta(kwargs) ==
    CASE kwargs.field = "days" -> kwargs.amount * 24 * 60 * 60
      [] kwargs.field = "hours" -> kwargs.amount * 60 * 60
      [] kwargs.field = "minutes" -> kwargs.amount * 60
      [] kwargs.field = "seconds" -> kwargs.amount

\* the UTC offset of zone at the instant u
utcoffset(zone, u) == IF u < zone.at THEN zone.before ELSE zone.after

\* time.localtime(u) as wall-clock seconds
localtime(zone, u) == u + utcoffset(zone, u)

\* datetime.datetime.today(): the naive local datetime of the instant now
today(zone, now) == [sec |-> localtime(zone, now.sec), us |-> now.us]

\* the greater of two integers
Max2(x, y) == IF x >= y THEN x ELSE y

\* datetime.timestamp() of a naive datetime with fold = 0, the fold of every
\* result of datetime arithmetic: the instant u with localtime(u) = t, the
\* earlier one when a wall-clock time comes twice
mktime(zone, t) ==
    LET a == localtime(zone, t) - t
        u1 == t - a
        t1 == localtime(zone, u1)
        b == IF t1 = t THEN localtime(zone, u1 - 24 * 3600) - (u1 - 24 * 3600)
             ELSE t1 - u1
        u2 == t - b
        t2 == localtime(zone, u2)
    IN IF t1 = t /\ a = b THEN u1
       ELSE IF t2 = t THEN u2
       ELSE IF t1 = t THEN u1
       ELSE Max2(u1, u2)

\* int((baseline - timedelta(**kwargs)).timestamp() * 1000), for instants after
\* the epoch: the microseconds below a millisecond are cut off
generate_timestamp(zone, baseline, kwargs) ==
    LET wall == [sec |-> baseline.sec - timedelta(kwargs), us |-> baseline.us]
    IN [sec |-> mktime(zone, wall.sec), ms |-> wall.us \div 1000]

\* the instant d microseconds after t
Later(t, d) == [sec |-> t.sec + (t.us + d) \div 1000000, us |-> (t.us + d) % 1000000]

-----------------------------------------------------------------------------
(* pattern_regex_creator.  A pattern is the sequence of its regex tokens: the
   operators "(?:", "|", ")", "^", "(?=.*", ".*", "$", and literal characters. *)

chain_op == << "~", "~" >>

\* sub occurs in s starting at position p
StartsAt(s, sub, p) ==
    /\ p + Len(sub) - 1 <= Len(s)
    /\ \A j \in 1..Len(sub) : s[p + j - 1] = sub[j]

\* chain_op in item
str_contains(s, sub) == \E p \in 1..(Len(s) + 1) : StartsAt(s, sub, p)

\* str.split(sep): cut at every occurrence of sep, left to right
RECURSIVE str_split(_, _)
str_split(s, sep) ==
    IF ~str_contains(s, sep) THEN << s >>
    ELSE LET p == Min({q \in 1..(Len(s) + 1) : StartsAt(s, sep, q)})
         IN << SubSeq(s, 1, p - 1) >> \o str_split(SubSeq(s, p + Len(sep), Len(s)), sep)

\* "".join(parts)
RECURSIVE concat(_)
concat(parts) == IF Len(parts) = 0 THEN << >> ELSE Head(parts) \o concat(Tail(parts))

\* sep.join(parts)
RECURSIVE str_join(_, _)
str_join(sep, parts) ==
    IF Len(parts) = 0 THEN << >>
    ELSE IF Len(parts) = 1 THEN Head(parts)
    ELSE Head(parts) \o sep \o str_join(sep, Tail(parts))

\* chain_pattern with the sub-tokens required one after the other: ^.*A.*B.*$
chain_pattern_ordered(tokens) ==
    << "^" >>
    \o concat([i \in 1..Len(tokens) |-> << ".*" >> \o tokens[i]])
    \o << ".*", "$" >>

\* "^" + "".join([f"(?=.*{piece})" for piece in tokens]) + ".*$"
chain_pattern(tokens) ==
    << "^" >>
    \o concat([i \in 1..Len(tokens) |-> << "(?=.*" >> \o tokens[i] \o << ")" >>])
    \o << ".*", "$" >>

token_pattern(item) ==
    IF str_contains(item, chain_op) THEN chain_pattern(str_split(item, chain_op))
    ELSE item

pattern_regex_creator(switch) ==
    << "(?:" >>
    \o str_join(<< "|" >>, [i \in 1..Len(switch) |-> token_pattern(switch[i])])
    \o << ")" >>

-----------------------------------------------------------------------------
(* re.search on the patterns pattern_regex_creator builds.  A line is held
   without its trailing newline: "." does not match it and "$" matches before
   it, so it plays no part in the search. *)

\* two characters agree under the match switches
SameChar(a, b, ignorecase) == IF ignorecase THEN LowerChar(a) = LowerChar(b) ELSE a = b

\* position of the first ")" in toks
ClosingAt(toks) == Min({i \in 1..Len(toks) : toks[i] = ")"})

\* toks matches s starting at position pos
RECURSIVE match_here(_, _, _, _)
match_here(toks, s, pos, ignorecase) ==
    IF Len(toks) = 0 THEN TRUE
    ELSE LET t == Head(toks)
             rest == Tail(toks)
         IN CASE t = "^" -> pos = 1 /\ match_here(rest, s, pos, ignorecase)
              [] t = "$" -> pos = Len(s) + 1 /\ match_here(rest, s, pos, ignorecase)
              [] t = ".*" -> \E q \in pos..(Len(s) + 1) : match_here(rest, s, q, ignorecase)
              [] t = "(?=.*" ->
                    LET c == ClosingAt(rest)
                    IN /\ \E q \in pos..(Len(s) + 1) :
                              match_here(SubSeq(rest, 1, c - 1), s, q, ignorecase)
                       /\ match_here(SubSeq(rest, c + 1, Len(rest)), s, pos, ignorecase)
              [] OTHER -> /\ pos <= Len(s)
                          /\ SameChar(s[pos], t, ignorecase)
                          /\ match_here(rest, s, pos + 1, ignorecase)

\* the alternatives of (?:A|B|...): the tokens between "(?:" and the last ")",
\* cut at every "|"
alternatives(pattern) == str_split(SubSeq(pattern, 2, Len(pattern) - 1), << "|" >>)

\* re.search(match_pattern, input_line, *match_switches) is not None
re_search(pattern, s, ignorecase) ==
    LET alts == alternatives(pattern)
    IN \E pos \in 1..(Len(s) + 1) : \E a \in 1..Len(alts) :
           match_here(alts[a], s, pos, ignorecase)

-----------------------------------------------------------------------------
(* prepare_switches.  The kcat section of a ConfigParser is the sequence of its
   [key, value] entries, in file order, keys unique. *)

cfg_has(section, key) == \E i \in 1..Len(section) : section[i].key = key

\* configs.get(section, key) when the key is there
cfg_get(section, key) == section[CHOOSE i \in 1..Len(section) : section[i].key = key].value

\* cfg_pop that leaves the section as it is
cfg_pop_nothing(section, key) == section

\* configs[section].pop(key)
cfg_pop(section, key) == SelectSeq(section, LAMBDA e : e.key # key)

\* str() of the epoch-millisecond integer sec * 1000 + ms
int_str(ts) ==
    IF ts.sec = 0 THEN ToString(ts.ms)
    ELSE ToString(ts.sec) \o (IF ts.ms < 10 THEN "00" ELSE IF ts.ms < 100 THEN "0" ELSE "")
                          \o ToString(ts.ms)

\* " ".join(topics)
RECURSIVE join_topics(_)
join_topics(topics) ==
    IF Len(topics) = 0 THEN ""
    ELSE IF Len(topics) = 1 THEN Head(topics)
    ELSE Head(topics) \o " " \o join_topics(Tail(topics))

\* lines 90-91: one -X key=value per entry left in the section
RECURSIVE passthrough(_)
passthrough(section) ==
    IF Len(section) = 0 THEN << >>
    ELSE << "-X", Head(section).key \o "=" \o Head(section).value >>
         \o passthrough(Tail(section))

\* offset_switches with the begin timestamp in both directives
offset_switches_begin_twice(b_ts, e_ts) ==
    << "-o", "s@" \o int_str(b_ts), "-o", "e@" \o int_str(b_ts) >>

\* lines 99-100
offset_switches(b_ts, e_ts) ==
    << "-o", "s@" \o int_str(b_ts), "-o", "e@" \o int_str(e_ts) >>

\* now1 and now2 are the instants of the two datetime.today() calls of lines
\* 96-97.  raised: configs.get found no bootstrap.servers and nothing else was done.
prepare_switches(cfgs, begin_time, end_time, topics, zone, now1, now2) ==
    IF ~cfg_has(cfgs, "bootstrap.servers")
    THEN [raised |-> TRUE, configs |-> cfgs, switches |-> << >>,
          begin_ts |-> [sec |-> 0, ms |-> 0], end_ts |-> [sec |-> 0, ms |-> 0]]
    ELSE LET bs == cfg_get(cfgs, "bootstrap.servers")
             left == cfg_pop(cfgs, "bootstrap.servers")
             b_ts == generate_timestamp(zone, today(zone, now1), begin_time)
             e_ts == generate_timestamp(zone, today(zone, now2), end_time)
         IN [raised |-> FALSE,
             configs |-> left,
             switches |-> << "-b", bs >> \o passthrough(left)
                          \o << "-m", "10", "-e", "-C", "-J" >>
                          \o << "-t", join_topics(topics) >>
                          \o offset_switches(b_ts, e_ts),
             begin_ts |-> b_ts,
             end_ts |-> e_ts]

-----------------------------------------------------------------------------
(* search_and_display.  A well-formed record line is "{" payload "}" with no
   brace inside, standing for a JSON object that carries topic, partition,
   offset, ts and payload; everything else makes json.loads or a key lookup
   raise. *)

PreviewLen == 200

json_loads(input_line) ==
    LET n == Len(input_line)
        ok == /\ n >= 2
              /\ input_line[1] = "{"
              /\ input_line[n] = "}"
              /\ \A i \in 2..(n - 1) : input_line[i] \notin {"{", "}"}
    IN [ok |-> ok, payload |-> IF ok THEN SubSeq(input_line, 2, n - 1) ELSE << >>]

\* the formatted row print() writes for a decoded record
format_row(data) ==
    [kind |-> "row",
     payload |-> SubSeq(data.payload, 1,
                        IF Len(data.payload) < PreviewLen THEN Len(data.payload)
                        ELSE PreviewLen)]

\* search_and_display with re.match for re.search: the pattern tried at the
\* start of the line only
search_and_display_match(input_line, match_pattern, ignorecase, printed) ==
    IF \E a \in 1..Len(alternatives(match_pattern)) :
           match_here(alternatives(match_pattern)[a], input_line, 1, ignorecase)
    THEN LET data == json_loads(input_line)
         IN IF data.ok
            THEN [raised |-> FALSE, stdout |-> Append(printed, format_row(data))]
            ELSE [raised |-> TRUE, stdout |-> printed]
    ELSE [raised |-> FALSE, stdout |-> printed]

\* printed is stdout before the call; raised: json.loads or a key lookup failed
search_and_display(input_line, match_pattern, ignorecase, printed) ==
    IF re_search(match_pattern, input_line, ignorecase)
    THEN LET data == json_loads(input_line)
         IN IF data.ok
            THEN [raised |-> FALSE, stdout |-> Append(printed, format_row(data))]
            ELSE [raised |-> TRUE, stdout |-> printed]
    ELSE [raised |-> FALSE, stdout |-> printed]

\* lines 204-205
header_rows == << [kind |-> "header", payload |-> << >>],
                  [kind |-> "rule", payload |-> << >>] >>

-----------------------------------------------------------------------------
(* Inputs *)

ExprChars == {"0", "1", "d", "H", "m", "s", "x", "-"}

\* instants the clock may show: 14 November 2023 22:13:20 UTC and 5 November
\* 2023 06:30:00 UTC, at the start, the end and the middle of a millisecond
Baselines == [sec : {1700000000, 1699165800}, us : {0, 999, 1000, 999999}]

\* zones without a change of offset: UTC and UTC+05:30
FixedZones == { [at |-> 0, before |-> 0, after |-> 0],
                [at |-> 0, before |-> 19800, after |-> 19800] }

\* local zones: the fixed ones, America/New_York around its change from -04:00
\* to -05:00 of 5 November 2023 06:00 UTC, and Australia/Sydney around its
\* change from +10:00 to +11:00 of 30 September 2023 16:00 UTC
Zones == FixedZones \union
         { [at |-> 1699164000, before |-> -14400, after |-> -18000],
           [at |-> 1696089600, before |-> 36000, after |-> 39600] }

\* search terms as -s receives them: plain, chained with "~~", and empty
SampleTerms == { << "a" >>, << "b" >>, << "b", "a" >>,
                 << "a", "~", "~", "b" >>, << "a", "b", "~", "~", "A" >>, << >> }

LineChars == {"a", "b", "A"}

\* -b and -e values: accepted ones, and ones outside <digits><unit>
SampleExprs == { << "1", "d" >>, << "0", "s" >>, << "1", "d", "x" >>, << "d" >> }

\* -s values of a whole run: none, one plain term, one chained term
SampleSearches == { << >>, << << "a" >> >>, << << "a", "~", "~", "b" >> >> }

\* lines the consumer may write: records and text that is no record
SampleLines == { << "{", "a", "}" >>, << "{", "b", "}" >>, << "{", "b", "a", "}" >>,
                 << "a" >>, << "b" >> }

\* exit statuses of the consumer
ExitCodes == {0, 1}

SampleTopics == { << "t1" >>, << "t1", "t2" >> }

\* kcat sections: with and without the broker key, with passthrough keys
SampleConfigs ==
    { << [key |-> "group.id", value |-> "g1"] >>,
      << [key |-> "bootstrap.servers", value |-> "host:9092"] >>,
      << [key |-> "security.protocol", value |-> "ssl"],
         [key |-> "bootstrap.servers", value |-> "host:9092"],
         [key |-> "group.id", value |-> "g1"] >> }

-----------------------------------------------------------------------------
(* Driver of parse_time_switch and generate_timestamp: one expression against
   one baseline, as lines 191-196 and 96 do for -b *)

Idle == /\ kcat_exists = TRUE /\ args_e = << >> /\ args_t = << >> /\ args_s = << >>
        /\ args_i = FALSE /\ config_file = << >> /\ configs = << >>
        /\ end_time_switch = NoSwitch /\ end_ts = [sec |-> 0, ms |-> 0]
        /\ kcat_switches = << >> /\ kcat_pattern = << >> /\ stdout = << >>
        /\ proc = "none" /\ proc_stdout = << >> /\ nread = 0 /\ nprocessed = 0
        /\ line = << >> /\ matched = FALSE /\ returncode = -1 /\ ncalls = 0

TimeInit ==
    /\ pc = "parse"
    /\ args_b \in SeqsUpTo(ExprChars, MaxExprLen)
    /\ tz \in Zones
    /\ clock \in Baselines
    /\ begin_time_switch = NoSwitch
    /\ begin_ts = [sec |-> 0, ms |-> 0]
    /\ Idle

TimeParse ==
    /\ pc = "parse"
    /\ begin_time_switch' = parse_time_switch(args_b)
    /\ pc' = IF begin_time_switch' = NoSwitch THEN "rejected" ELSE "resolve"
    /\ UNCHANGED << tz, kcat_exists, args_b, args_e, args_t, args_s, args_i, config_file,
                    configs, clock, end_time_switch, begin_ts, end_ts, kcat_switches,
                    kcat_pattern, stdout, proc, proc_stdout, nread, nprocessed, line,
                    matched, returncode, ncalls >>

TimeResolve ==
    /\ pc = "resolve"
    /\ begin_ts' = generate_timestamp(tz, today(tz, clock), begin_time_switch)
    /\ pc' = "resolved"
    /\ UNCHANGED << tz, kcat_exists, args_b, args_e, args_t, args_s, args_i, config_file,
                    configs, clock, begin_time_switch, end_time_switch, end_ts,
                    kcat_switches, kcat_pattern, stdout, proc, proc_stdout, nread,
                    nprocessed, line, matched, returncode, ncalls >>

TimeNext == TimeParse \/ TimeResolve

SpecTime == TimeInit /\ [][TimeNext]_vars

-----------------------------------------------------------------------------
(* Driver of pattern_regex_creator and re.search: one list of terms against
   one line, as lines 199-202 and 105 do *)

PatternInit ==
    /\ pc = "compile"
    /\ args_s \in SeqsUpTo(SampleTerms, MaxTerms)
    /\ args_i \in BOOLEAN
    /\ line \in SeqsUpTo(LineChars, MaxLineLen)
    /\ kcat_pattern = << >>
    /\ matched = FALSE
    /\ kcat_exists = TRUE /\ args_b = << >> /\ args_e = << >> /\ args_t = << >>
    /\ config_file = << >> /\ configs = << >>
    /\ tz \in FixedZones
    /\ clock = [sec |-> 0, us |-> 0]
    /\ begin_time_switch = NoSwitch /\ end_time_switch = NoSwitch
    /\ begin_ts = [sec |-> 0, ms |-> 0] /\ end_ts = [sec |-> 0, ms |-> 0]
    /\ kcat_switches = << >> /\ stdout = << >>
    /\ proc = "none" /\ proc_stdout = << >> /\ nread = 0 /\ nprocessed = 0
    /\ returncode = -1 /\ ncalls = 0

PatternCompile ==
    /\ pc = "compile"
    /\ kcat_pattern' = pattern_regex_creator(args_s)
    /\ pc' = "search"
    /\ UNCHANGED << tz, kcat_exists, args_b, args_e, args_t, args_s, args_i, config_file,
                    configs, clock, begin_time_switch, end_time_switch, begin_ts,
                    end_ts, kcat_switches, stdout, proc, proc_stdout, nread,
                    nprocessed, line, matched, returncode, ncalls >>

PatternSearch ==
    /\ pc = "search"
    /\ matched' = re_search(kcat_pattern, line, args_i)
    /\ pc' = "searched"
    /\ UNCHANGED << tz, kcat_exists, args_b, args_e, args_t, args_s, args_i, config_file,
                    configs, clock, begin_time_switch, end_time_switch, begin_ts,
                    end_ts, kcat_switches, kcat_pattern, stdout, proc, proc_stdout,
                    nread, nprocessed, line, returncode, ncalls >>

PatternNext == PatternCompile \/ PatternSearch

SpecPattern == PatternInit /\ [][PatternNext]_vars

-----------------------------------------------------------------------------
(* Driver of prepare_switches: calls on one config object read from one file,
   with the switches parse_time_switch accepted for -b and -e, in a zone
   without a change of offset *)

SwitchesInit ==
    /\ pc = "call"
    /\ args_b \in {e \in SampleExprs : parse_time_switch(e) # NoSwitch}
    /\ args_e \in {e \in SampleExprs : parse_time_switch(e) # NoSwitch}
    /\ begin_time_switch = parse_time_switch(args_b)
    /\ end_time_switch = parse_time_switch(args_e)
    /\ args_t \in SampleTopics
    /\ config_file \in SampleConfigs
    /\ configs = config_file
    /\ tz \in FixedZones
    /\ clock \in Baselines
    /\ begin_ts = [sec |-> 0, ms |-> 0] /\ end_ts = [sec |-> 0, ms |-> 0]
    /\ kcat_switches = << >>
    /\ ncalls = 0
    /\ kcat_exists = TRUE /\ args_s = << >> /\ args_i = FALSE
    /\ kcat_pattern = << >> /\ stdout = << >>
    /\ proc = "none" /\ proc_stdout = << >> /\ nread = 0 /\ nprocessed = 0
    /\ line = << >> /\ matched = FALSE /\ returncode = -1

SwitchesCall ==
    /\ ncalls < MaxCalls
    /\ \E d \in 0..MaxElapsedUs :
          LET r == prepare_switches(configs, begin_time_switch, end_time_switch,
                                    args_t, tz, clock, Later(clock, d))
          IN /\ pc' = IF r.raised THEN "raised" ELSE "returned"
             /\ configs' = r.configs
             /\ kcat_switches' = r.switches
             /\ begin_ts' = r.begin_ts
             /\ end_ts' = r.end_ts
             /\ clock' = IF r.raised THEN clock ELSE Later(clock, d)
    /\ ncalls' = ncalls + 1
    /\ UNCHANGED << tz, kcat_exists, args_b, args_e, args_t, args_s, args_i, config_file,
                    begin_time_switch, end_time_switch, kcat_pattern, stdout, proc,
                    proc_stdout, nread, nprocessed, line, matched, returncode >>

SwitchesNext == SwitchesCall

SpecSwitches == SwitchesInit /\ [][SwitchesNext]_vars

-----------------------------------------------------------------------------
(* The script body, lines 182-207 *)

Init ==
    /\ pc = "check_kcat"
    /\ kcat_exists \in BOOLEAN
    /\ args_b \in SampleExprs
    /\ args_e \in SampleExprs
    /\ args_t = << "t1", "t2" >>
    /\ args_s \in SampleSearches
    /\ args_i \in BOOLEAN
    /\ config_file \in SampleConfigs
    /\ configs = << >>
    /\ tz \in FixedZones
    /\ clock = [sec |-> 1700000000, us |-> 999]
    /\ begin_time_switch = NoSwitch /\ end_time_switch = NoSwitch
    /\ begin_ts = [sec |-> 0, ms |-> 0] /\ end_ts = [sec |-> 0, ms |-> 0]
    /\ kcat_switches = << >>
    /\ kcat_pattern = << >>
    /\ stdout = << >>
    /\ proc = "none"
    /\ proc_stdout \in SeqsUpTo(SampleLines, MaxLines)
    /\ nread = 0 /\ nprocessed = 0
    /\ line = << >>
    /\ matched = FALSE
    /\ returncode = -1
    /\ ncalls = 0

\* lines 183-185
CheckKcat ==
    /\ pc = "check_kcat"
    /\ pc' = IF kcat_exists THEN "read_config" ELSE "failed"
    /\ UNCHANGED << tz, kcat_exists, args_b, args_e, args_t, args_s, args_i, config_file,
                    configs, clock, begin_time_switch, end_time_switch, begin_ts,
                    end_ts, kcat_switches, kcat_pattern, stdout, proc, proc_stdout,
                    nread, nprocessed, line, matched, returncode, ncalls >>

\* lines 188-190
ReadConfig ==
    /\ pc = "read_config"
    /\ configs' = config_file
    /\ pc' = "parse_begin"
    /\ UNCHANGED << tz, kcat_exists, args_b, args_e, args_t, args_s, args_i, config_file,
                    clock, begin_time_switch, end_time_switch, begin_ts, end_ts,
                    kcat_switches, kcat_pattern, stdout, proc, proc_stdout, nread,
                    nprocessed, line, matched, returncode, ncalls >>

\* lines 191-193
ParseBegin ==
    /\ pc = "parse_begin"
    /\ begin_time_switch' = parse_time_switch(args_b)
    /\ pc' = IF begin_time_switch' = NoSwitch THEN "failed" ELSE "parse_end"
    /\ UNCHANGED << tz, kcat_exists, args_b, args_e, args_t, args_s, args_i, config_file,
                    configs, clock, end_time_switch, begin_ts, end_ts, kcat_switches,
                    kcat_pattern, stdout, proc, proc_stdout, nread, nprocessed, line,
                    matched, returncode, ncalls >>

\* lines 194-196
ParseEnd ==
    /\ pc = "parse_end"
    /\ end_time_switch' = parse_time_switch(args_e)
    /\ pc' = IF end_time_switch' = NoSwitch THEN "failed" ELSE "prepare"
    /\ UNCHANGED << tz, kcat_exists, args_b, args_e, args_t, args_s, args_i, config_file,
                    configs, clock, begin_time_switch, begin_ts, end_ts, kcat_switches,
                    kcat_pattern, stdout, proc, proc_stdout, nread, nprocessed, line,
                    matched, returncode, ncalls >>

\* line 198
PrepareSwitches ==
    /\ pc = "prepare"
    /\ \E d \in 0..MaxElapsedUs :
          LET r == prepare_switches(configs, begin_time_switch, end_time_switch,
                                    args_t, tz, clock, Later(clock, d))
          IN /\ pc' = IF r.raised THEN "failed" ELSE "pattern"
             /\ configs' = r.configs
             /\ kcat_switches' = r.switches
             /\ begin_ts' = r.begin_ts
             /\ end_ts' = r.end_ts
             /\ clock' = IF r.raised THEN clock ELSE Later(clock, d)
    /\ UNCHANGED << tz, kcat_exists, args_b, args_e, args_t, args_s, args_i, config_file,
                    begin_time_switch, end_time_switch, kcat_pattern, stdout, proc,
                    proc_stdout, nread, nprocessed, line, matched, returncode, ncalls >>

\* lines 199-202
CreatePattern ==
    /\ pc = "pattern"
    /\ kcat_pattern' = pattern_regex_creator(args_s)
    /\ pc' = "header"
    /\ UNCHANGED << tz, kcat_exists, args_b, args_e, args_t, args_s, args_i, config_file,
                    configs, clock, begin_time_switch, end_time_switch, begin_ts,
                    end_ts, kcat_switches, stdout, proc, proc_stdout, nread,
                    nprocessed, line, matched, returncode, ncalls >>

\* lines 204-205
PrintHeader ==
    /\ pc = "header"
    /\ stdout' = stdout \o header_rows
    /\ pc' = "spawn"
    /\ UNCHANGED << tz, kcat_exists, args_b, args_e, args_t, args_s, args_i, config_file,
                    configs, clock, begin_time_switch, end_time_switch, begin_ts,
                    end_ts, kcat_switches, kcat_pattern, proc, proc_stdout, nread,
                    nprocessed, line, matched, returncode, ncalls >>

\* stream_subcommand, lines 19-22: the first next() of the generator starts kcat
Spawn ==
    /\ pc = "spawn"
    /\ proc' = "running"
    /\ pc' = "readline"
    /\ UNCHANGED << tz, kcat_exists, args_b, args_e, args_t, args_s, args_i, config_file,
                    configs, clock, begin_time_switch, end_time_switch, begin_ts,
                    end_ts, kcat_switches, kcat_pattern, stdout, proc_stdout, nread,
                    nprocessed, line, matched, returncode, ncalls >>

\* stream_subcommand, lines 23-25: readline returns the next line, which is yielded
YieldLine ==
    /\ pc = "readline"
    /\ nread < Len(proc_stdout)
    /\ line' = proc_stdout[nread + 1]
    /\ nread' = nread + 1
    /\ pc' = "search"
    /\ UNCHANGED << tz, kcat_exists, args_b, args_e, args_t, args_s, args_i, config_file,
                    configs, clock, begin_time_switch, end_time_switch, begin_ts,
                    end_ts, kcat_switches, kcat_pattern, stdout, proc, proc_stdout,
                    nprocessed, matched, returncode, ncalls >>

\* stream_subcommand, lines 22-23: readline returns b"" at end of stream, the
\* with block reaps the consumer, the generator and the script end
EndOfStream ==
    /\ pc = "readline"
    /\ nread = Len(proc_stdout)
    /\ proc' = "exited"
    /\ \E rc \in ExitCodes : returncode' = rc
    /\ pc' = "done"
    /\ UNCHANGED << tz, kcat_exists, args_b, args_e, args_t, args_s, args_i, config_file,
                    configs, clock, begin_time_switch, end_time_switch, begin_ts,
                    end_ts, kcat_switches, kcat_pattern, stdout, proc_stdout, nread,
                    nprocessed, line, matched, ncalls >>

\* line 207: search_and_display on the yielded line
SearchAndDisplay ==
    /\ pc = "search"
    /\ LET r == search_and_display(line, kcat_pattern, args_i, stdout)
       IN /\ stdout' = r.stdout
          /\ pc' = IF r.raised THEN "failed" ELSE "readline"
          /\ nprocessed' = IF r.raised THEN nprocessed ELSE nprocessed + 1
    /\ matched' = re_search(kcat_pattern, line, args_i)
    /\ UNCHANGED << tz, kcat_exists, args_b, args_e, args_t, args_s, args_i, config_file,
                    configs, clock, begin_time_switch, end_time_switch, begin_ts,
                    end_ts, kcat_switches, kcat_pattern, proc, proc_stdout, nread,
                    line, returncode, ncalls >>

Next ==
    \/ CheckKcat
    \/ ReadConfig
    \/ ParseBegin
    \/ ParseEnd
    \/ PrepareSwitches
    \/ CreatePattern
    \/ PrintHeader
    \/ Spawn
    \/ YieldLine
    \/ EndOfStream
    \/ SearchAndDisplay

Spec == Init /\ [][Next]_vars

-----------------------------------------------------------------------------
(* Claims about the time expression parser *)

\* the grammar ^(\d+)([dhms])$ with a case-insensitive unit letter
WholeGrammar(s) ==
    /\ Len(s) >= 2
    /\ \A i \in 1..(Len(s) - 1) : IsDigit(s[i])
    /\ s[Len(s)] \in {"d", "h", "m", "s", "D", "H", "M", "S"}

\* milliseconds in one unit, by lower-case unit letter
UnitMs(u) == CASE u = "d" -> 86400000 [] u = "h" -> 3600000
               [] u = "m" -> 60000 [] u = "s" -> 1000

\* C2: every expression outside the whole-string grammar <digits><unit> is
\* rejected by parse_time_switch and yields neither a duration nor a timestamp.
C2_MalformedRejected ==
    (pc # "parse" /\ ~WholeGrammar(args_b))
        => (pc = "rejected" /\ begin_time_switch = NoSwitch)

\* C8: for a valid <n><unit> and every baseline the timestamp is the baseline's
\* epoch milliseconds minus n times the unit's length in milliseconds, cut to a
\* whole millisecond.
C8_TimestampExact ==
    (pc = "resolved" /\ WholeGrammar(args_b))
        => LET n == int(SubSeq(args_b, 1, Len(args_b) - 1))
               unit == LowerChar(args_b[Len(args_b)])
           IN /\ begin_ts.sec = clock.sec - n * (UnitMs(unit) \div 1000)
              /\ begin_ts.ms = (clock.us \div 1000) - n * (UnitMs(unit) % 1000)

-----------------------------------------------------------------------------
(* Claims about the search pattern *)

\* tok occurs somewhere in s (case folded when the search ignores case)
Occurs(tok, s, ignorecase) ==
    \E p \in 0..(Len(s) - Len(tok)) :
        \A j \in 1..Len(tok) : SameChar(s[p + j], tok[j], ignorecase)

\* C4: the pattern matches a line iff the term list is empty or some term has
\* all of its "~~"-separated sub-tokens occurring in the line, in any order.
C4_PatternMatches ==
    pc = "searched"
        => (matched <=>
               \/ args_s = << >>
               \/ \E t \in 1..Len(args_s) :
                      LET tokens == str_split(args_s[t], chain_op)
                      IN \A k \in 1..Len(tokens) : Occurs(tokens[k], line, args_i))

\* a chained term matches with its sub-tokens in the other order
C4_Witness ==
    /\ pc = "searched"
    /\ args_s = << << "b" , "a" >>, << "a", "~", "~", "b" >> >>
    /\ args_i = FALSE
    /\ line = << "a", "A", "b" >>
    /\ matched

-----------------------------------------------------------------------------
(* Claims about prepare_switches *)

\* positions of the argument x in the list prepare_switches returned
Positions(x) == {i \in 1..Len(kcat_switches) : kcat_switches[i] = x}

\* positions of the argument x that directly follow the option opt
ValuesOf(opt, x) ==
    {i \in 2..Len(kcat_switches) : kcat_switches[i - 1] = opt /\ kcat_switches[i] = x}

\* C5: the begin and end timestamps of one invocation are taken against the same
\* instant: their difference is exactly the difference of the two durations.
C5_SameBaseline ==
    (pc = "returned" /\ ncalls = 1)
        => (end_ts.sec - begin_ts.sec) * 1000 + (end_ts.ms - begin_ts.ms)
               = (timedelta(begin_time_switch) - timedelta(end_time_switch)) * 1000

\* C9: with bootstrap.servers in the section, the argument list holds the broker
\* address once, as the value of -b and not as a -X option; each other key once
\* as -X key=value; the topics as one space-joined -t argument; and exactly two
\* -o directives, s@<begin timestamp> and e@<end timestamp>.
C9_ArgumentList ==
    (ncalls = 1 /\ cfg_has(config_file, "bootstrap.servers"))
        => LET bs == cfg_get(config_file, "bootstrap.servers")
               others == {i \in 1..Len(config_file) :
                              config_file[i].key # "bootstrap.servers"}
           IN /\ pc = "returned"
              /\ Positions("-b") = {1}
              /\ Positions(bs) = {2}
              /\ ValuesOf("-X", "bootstrap.servers=" \o bs) = {}
              /\ Cardinality(Positions("-X")) = Cardinality(others)
              /\ \A i \in others :
                     Cardinality(ValuesOf("-X", config_file[i].key \o "="
                                                \o config_file[i].value)) = 1
              /\ Cardinality(Positions("-t")) = 1
              /\ args_t = << "t1" >> => Cardinality(ValuesOf("-t", "t1")) = 1
              /\ args_t = << "t1", "t2" >> => Cardinality(ValuesOf("-t", "t1 t2")) = 1
              /\ Cardinality(Positions("-o")) = 2
              /\ Cardinality(ValuesOf("-o", "s@" \o int_str(begin_ts))) = 1
              /\ Cardinality(ValuesOf("-o", "e@" \o int_str(end_ts))) = 1
              /\ end_ts.sec = clock.sec - timedelta(end_time_switch)
              /\ clock.sec - timedelta(begin_time_switch) - begin_ts.sec \in {0, 1}

\* the example of the specification, with one more passthrough key
C9_Witness ==
    /\ ncalls = 1
    /\ args_b = << "1", "d" >>
    /\ args_e = << "0", "s" >>
    /\ kcat_switches = << "-b", "host:9092", "-X", "security.protocol=ssl",
                          "-X", "group.id=g1", "-m", "10", "-e", "-C", "-J",
                          "-t", "t1 t2", "-o", "s@1699913600000",
                          "-o", "e@1700000000001" >>

\* C10: prepare_switches changes the config object only by removing
\* bootstrap.servers from the section, and so a second call on the same object
\* fails for the missing key.
C10_ConfigMutation ==
    ncalls >= 1
        => IF cfg_has(config_file, "bootstrap.servers")
           THEN /\ ~cfg_has(configs, "bootstrap.servers")
                /\ Len(configs) = Len(config_file) - 1
                /\ \A i \in 1..Len(config_file) :
                       config_file[i].key # "bootstrap.servers"
                           => \E j \in 1..Len(configs) : configs[j] = config_file[i]
                /\ ncalls = 1 => pc = "returned"
                /\ ncalls >= 2 => (pc = "raised" /\ kcat_switches = << >>)
           ELSE configs = config_file /\ pc = "raised"

C10_Witness ==
    /\ ncalls = 2
    /\ pc = "raised"
    /\ Len(config_file) = 3
    /\ configs = << [key |-> "security.protocol", value |-> "ssl"],
                    [key |-> "group.id", value |-> "g1"] >>

-----------------------------------------------------------------------------
(* Claims about the streaming run *)

\* the line matches the pattern compiled from -s under the -i switch
LineMatches(l) == re_search(pattern_regex_creator(args_s), l, args_i)

\* the lines of ls that match, in their order
MatchingLines(ls) == SelectSeq(ls, LineMatches)

\* the consumer's output in which every matching line is a well-formed record
MatchesDecodable ==
    \A i \in 1..Len(proc_stdout) :
        LineMatches(proc_stdout[i]) => json_loads(proc_stdout[i]).ok

\* the run is over, by the end of the stream or by an exception
RunEnded == proc # "none" /\ pc \in {"done", "failed"}

\* C1 as stated: for any consumer output of N lines of which M match, the run
\* emits exactly M rows, those of the matching lines in their order.
C1_AnyOutput ==
    RunEnded
        => LET expect == MatchingLines(proc_stdout)
           IN /\ Len(stdout) = Len(header_rows) + Len(expect)
              /\ \A k \in 1..Len(expect) :
                     stdout[Len(header_rows) + k] = format_row(json_loads(expect[k]))

\* C1 amended: for any consumer output whose matching lines are all well-formed
\* records, the rows emitted so far are those of the matching lines among the
\* lines processed so far, in their order; the run ends only with every line
\* processed; and a line is read only when every earlier line has been processed.
C1_Streaming ==
    proc # "none"
        => /\ nread - nprocessed \in {0, 1}
           /\ pc = "readline" => nread = nprocessed
           /\ MatchesDecodable
                 => LET expect == MatchingLines(SubSeq(proc_stdout, 1, nprocessed))
                    IN /\ pc # "failed"
                       /\ pc = "done" => nprocessed = Len(proc_stdout)
                       /\ Len(stdout) = Len(header_rows) + Len(expect)
                       /\ \A k \in 1..Len(expect) :
                              stdout[Len(header_rows) + k]
                                  = format_row(json_loads(expect[k]))

\* two lines, the second of which matches and is printed
C1_Witness ==
    /\ pc = "done"
    /\ args_s = << << "a" >> >>
    /\ args_i = FALSE
    /\ proc_stdout = << << "{", "b", "}" >>, << "{", "b", "a", "}" >> >>
    /\ nprocessed = 2
    /\ stdout = header_rows \o << [kind |-> "row", payload |-> << "b", "a" >>] >>

\* C3: no line that is not a well-formed record is ever passed over: every line
\* search_and_display returned from normally was one, matching or not.
C3_MalformedAborts ==
    \A i \in 1..nprocessed : json_loads(proc_stdout[i]).ok

\* C6: a run that reaches its normal end had a consumer that exited with 0; a
\* non-zero exit status ends the run differently.
C6_ExitStatusSurfaced ==
    pc = "done" => returncode = 0

\* C7: the consumer is started and the header printed only when the executable
\* check passed, both time expressions are well-formed and the section holds
\* bootstrap.servers.
C7_ChecksBeforeSpawn ==
    (proc # "none" \/ stdout # << >>)
        => /\ kcat_exists
           /\ WholeGrammar(args_b)
           /\ WholeGrammar(args_e)
           /\ cfg_has(config_file, "bootstrap.servers")

====
